---------------------------- MODULE Spec2Model ----------------------------
(***************************************************************************)
(* A state-machine model of the reader/evaluator core of the Lisp          *)
(* interpreter in src/src/interpreter.cpp.                                  *)
(*                                                                         *)
(* The heap is a sequence of objects addressed by their index (the C++     *)
(* Object pointers), the scopes are SymTable records with an explicit      *)
(* prev pointer, and the C++ call stack is the sequence `stack` of         *)
(* activation records: every step of the model runs one function from one  *)
(* call of eval_expr to the next (or to its return).  The reader is        *)
(* computed by the recursive operators read_expr / read_list / ... over    *)
(* the text, a sequence of one-character strings.                          *)
(*                                                                         *)
(* Not modelled: the diagnostics counters IS.line / IS.col, the stdlib     *)
(* file loaded by init_interp, and the builtins memtotal, timeit, sleep    *)
(* (clock, memory and thread collaborators).                               *)
(***************************************************************************)
EXTENDS Integers, Sequences, FiniteSets, TLC

VARIABLES
  text,             \* IS.text: the program text, one character per element
  text_pos,         \* IS.text_pos: the reader cursor (0-based)
  heap,             \* every Object ever allocated; an Object* is an index
  symtabs,          \* the SymTable objects; a SymTable* is an index
  symtable,         \* IS.symtable: the current scope
  call_stack_size,  \* the static call-depth counter
  stack,            \* the activation records of the C++ functions in flight
  ret,              \* the Object* returned by the call that finished last
  out,              \* everything printed so far, one element per printf
  status            \* "running", "done", "exit" (exit(1)), "crash"

vars == <<text, text_pos, heap, symtabs, symtable, call_stack_size,
          stack, ret, out, status>>

---------------------------------------------------------------------------
(* Object model (objects.hpp is not part of src/; modelled from spec §3).  *)

OF_EVALUATED == "EVALUATED"
OF_LIST_LITERAL == "LIST_LITERAL"
OF_LAMBDA == "LAMBDA"
OF_BUILTIN == "BUILTIN"

\* A fresh object of the given type: no flags, empty value.
new_object(type) ==
  [type |-> type, flags |-> {}, i |-> 0, s |-> "", l |-> <<>>,
   funargs |-> 0, funbody |-> 0]

create_nil_obj == [new_object("Nil") EXCEPT !.flags = {OF_EVALUATED}]
create_bool_obj(b) ==
  [new_object("Bool") EXCEPT !.i = IF b THEN 1 ELSE 0, !.flags = {OF_EVALUATED}]
create_num_obj(v) == [new_object("Number") EXCEPT !.i = v]
create_str_obj(s) == [new_object("String") EXCEPT !.s = s]
create_sym_obj(s) == [new_object("Symbol") EXCEPT !.s = s]
create_final_sym_obj(s) == [create_sym_obj(s) EXCEPT !.flags = {OF_EVALUATED}]
create_list_obj == new_object("List")
\* The list the call protocol collects variadic arguments into: a data
\* (quoted) list, whose elements are evaluated in place when it is bound.
create_data_list_obj == [create_list_obj EXCEPT !.flags = {OF_LIST_LITERAL}]
create_builtin_fobj(name) ==
  [new_object("Function") EXCEPT !.s = name, !.flags = {OF_BUILTIN}]

\* The singletons of init_interp, in construction order.
nil_obj == 1
true_obj == 2
false_obj == 3
dot_obj == 4
else_obj == 5

\* The builtin table of init_interp, in registration order.
BuiltinNames ==
  <<"+", "-", "/", "*", "**", "=", ">", "<", "setq", "print", "defun",
    "lambda", "if", "car", "cdr", "cadr", "cond">>

NumSingletons == 5

\* The heap after init_interp: the singletons, then one object per builtin.
InitHeap ==
  <<create_nil_obj, create_bool_obj(TRUE), create_bool_obj(FALSE),
    create_final_sym_obj("."), create_final_sym_obj(".")>>
  \o [k \in 1..Len(BuiltinNames) |-> create_builtin_fobj(BuiltinNames[k])]

\* The global symbol table after init_interp.
InitGlobals ==
  [n \in {"nil", "true", "false", "else"} \cup
         {BuiltinNames[k] : k \in 1..Len(BuiltinNames)} |->
     CASE n = "nil" -> nil_obj
       [] n = "true" -> true_obj
       [] n = "false" -> false_obj
       [] n = "else" -> else_obj
       [] OTHER -> NumSingletons +
                   (CHOOSE k \in 1..Len(BuiltinNames) : BuiltinNames[k] = n)]

is_list(h, o) == h[o].type = "List"
list_length(h, o) == Len(h[o].l)
list_index(h, o, k) == h[o].l[k + 1]
list_append_inplace(h, o, e) == [h EXCEPT ![o].l = Append(@, e)]
has_flag(h, o, f) == f \in h[o].flags
set_flag(h, o, f) == [h EXCEPT ![o].flags = @ \cup {f}]
\* Anything other than the false and Nil singletons is truthy.
is_truthy(o) == o # false_obj /\ o # nil_obj

---------------------------------------------------------------------------
(* Reader                                                                  *)

Letters ==
  {"a","b","c","d","e","f","g","h","i","j","k","l","m","n","o","p","q",
   "r","s","t","u","v","w","x","y","z"}
DigitChars == <<"0","1","2","3","4","5","6","7","8","9">>
Digits == {DigitChars[k] : k \in 1..10}
DigitVal(ch) == (CHOOSE k \in 1..10 : DigitChars[k] = ch) - 1

can_be_a_part_of_symbol(ch) ==
  ch \in Letters \cup {"+", "-", "=", "*", "/", ">", "<", "?"}

\* IS.text[pos]: the text is NUL-terminated, so the position just after the
\* last character reads as NUL; any position beyond that is outside the
\* buffer.
NUL == "NUL"
OOB == "OOB"
get_char(t, pos) ==
  IF pos < Len(t) THEN t[pos + 1] ELSE IF pos = Len(t) THEN NUL ELSE OOB

\* What a reader function hands back: how it ended ("ok", "exit" for
\* exit(1), "ub" for a comment scan that left the buffer at top level,
\* "ub_list" for one inside a list), the cursor, the heap and the object
\* read.
Rd(st, pos, h, obj) == [st |-> st, pos |-> pos, heap |-> h, obj |-> obj]

\* consume_char: the cursor after the expected character, or -1 on exit(1).
consume_char(t, pos, ch) == IF get_char(t, pos) = ch THEN pos + 1 ELSE -1

\* The end of the maximal run of characters satisfying the loop condition
\* of read_sym / read_num / read_str, starting at pos.
RECURSIVE RunEnd(_, _, _)
RunEnd(t, pos, kind) ==
  LET ch == get_char(t, pos)
      more == CASE kind = "sym" -> can_be_a_part_of_symbol(ch)
                [] kind = "num" -> ch \in Digits
                [] OTHER -> ch # "\""
  IN IF pos < Len(t) /\ more THEN RunEnd(t, pos + 1, kind) ELSE pos

RECURSIVE Concat(_, _, _)
Concat(t, from, to) ==
  IF from >= to THEN "" ELSE t[from + 1] \o Concat(t, from + 1, to)

RECURSIVE Decimal(_, _, _)
Decimal(t, from, to) ==
  IF from >= to THEN 0
  ELSE Decimal(t, from, to - 1) * 10 + DigitVal(t[to])

read_str(t, pos, h) ==
  LET p1 == consume_char(t, pos, "\"")
      p2 == RunEnd(t, p1, "str")
      p3 == consume_char(t, p2, "\"")
  IN IF p1 < 0 \/ p3 < 0 THEN Rd("exit", pos, h, nil_obj)
     ELSE Rd("ok", p3, Append(h, create_str_obj(Concat(t, p1, p2))),
             Len(h) + 1)

read_sym(t, pos, h) ==
  LET p2 == RunEnd(t, pos, "sym")
  IN Rd("ok", p2, Append(h, create_sym_obj(Concat(t, pos, p2))), Len(h) + 1)

read_num(t, pos, h) ==
  LET p2 == RunEnd(t, pos, "num")
  IN Rd("ok", p2, Append(h, create_num_obj(Decimal(t, pos, p2))), Len(h) + 1)

\* The cursor of the first newline at or after pos, or -1 when the scan
\* `while (get_char() != '\n') skip_char()` leaves the buffer first.
RECURSIVE CommentEnd(_, _)
CommentEnd(t, pos) ==
  IF get_char(t, pos) = OOB THEN -1
  ELSE IF get_char(t, pos) = "\n" THEN pos
  ELSE CommentEnd(t, pos + 1)

RECURSIVE read_expr(_, _, _), read_list(_, _, _, _), ReadListLoop(_, _, _, _)

read_expr(t, pos, h) ==
  LET ch == get_char(t, pos)
  IN IF ch = OOB THEN Rd("ub", pos, h, nil_obj)
     ELSE IF pos >= Len(t) THEN Rd("ok", pos, h, nil_obj)
     ELSE CASE ch = " " -> read_expr(t, pos + 1, h)
            [] ch \in {"\n", "\r"} -> read_expr(t, pos + 1, h)
            [] ch = ";" ->
                 LET e == CommentEnd(t, pos)
                 IN IF e < 0 THEN Rd("ub", Len(t) + 1, h, nil_obj)
                    ELSE read_expr(t, e + 1, h)
            [] ch = "(" -> read_list(t, pos, h, FALSE)
            [] ch = "'" -> read_list(t, pos + 1, h, TRUE)
            [] ch = "\"" -> read_str(t, pos, h)
            [] ch = "." -> Rd("ok", pos + 1, h, dot_obj)
            [] ch \in Digits -> read_num(t, pos, h)
            [] can_be_a_part_of_symbol(ch) -> read_sym(t, pos, h)
            [] OTHER -> Rd("exit", pos, h, nil_obj)

read_list(t, pos, h, literal) ==
  LET res == Len(h) + 1
      h1 == Append(h, IF literal
                        THEN [create_list_obj EXCEPT !.flags = {OF_LIST_LITERAL}]
                        ELSE create_list_obj)
      p1 == consume_char(t, pos, "(")
  IN IF p1 < 0 THEN Rd("exit", pos, h1, nil_obj)
     ELSE ReadListLoop(t, p1, h1, res)

\* The loop of read_list; each element is read once (r ranges over the one
\* result of read_expr).
ReadListLoop(t, pos, h, res) ==
  IF get_char(t, pos) = OOB THEN Rd("ub", pos, h, nil_obj)
  ELSE IF get_char(t, pos) = ")" THEN Rd("ok", pos + 1, h, res)
  ELSE IF pos >= Len(t) THEN Rd("exit", pos, h, nil_obj)
  ELSE CHOOSE v \in
         {IF r.st = "ub" THEN [r EXCEPT !.st = "ub_list"]
          ELSE IF r.st # "ok" THEN r
          ELSE ReadListLoop(t, r.pos, list_append_inplace(r.heap, res, r.obj),
                            res) : r \in {read_expr(t, pos, h)}} : TRUE


---------------------------------------------------------------------------
(* Environment                                                             *)

EmptyMap == [n \in {} |-> 0]
Put(m, key, value) ==
  [n \in DOMAIN m \cup {key} |-> IF n = key THEN value ELSE m[n]]

\* A SymTable: its map and the scope it is chained to (0 is nullptr).
SymTable(m, prev) == [map |-> m, prev |-> prev]

ValidScope(tabs, s) == s \in 1..Len(tabs)

\* Mutant of set_symbol: the binding goes to the global table.
set_symbol_Global(tabs, cur, key, value) ==
  [tabs EXCEPT ![1].map = Put(@, key, value)]

\* set_symbol: bind key in the current scope, IS.symtable.
set_symbol(tabs, cur, key, value) ==
  IF ValidScope(tabs, cur)
    THEN [tabs EXCEPT ![cur].map = Put(@, key, value)]
    ELSE tabs

\* The loop of get_symbol run over at most k scopes of the chain that
\* starts at scope s: the scope found to bind key (or 0), and the scope the
\* walk would visit next (0 after the global table, which has no parent).
\* The chain is split in halves so that the walk nests only
\* logarithmically deep; h and a range over one value each, the half and
\* the walk over the first half, computed once.
RECURSIVE Walk(_, _, _, _)
Walk(tabs, s, k, key) ==
  IF ~ValidScope(tabs, s) THEN [found |-> 0, next |-> 0]
  ELSE IF k <= 1
    THEN IF key \in DOMAIN tabs[s].map
           THEN [found |-> s, next |-> 0]
           ELSE [found |-> 0, next |-> tabs[s].prev]
    ELSE CHOOSE v \in UNION {
           {IF a.found # 0 \/ a.next = 0 THEN a
            ELSE Walk(tabs, a.next, k - h, key) :
              a \in {Walk(tabs, s, h, key)}} : h \in {k \div 2}} : TRUE

\* The scope of the chain starting at cur that binds key, or 0.
FindScope(tabs, cur, key) == Walk(tabs, cur, Len(tabs), key).found

\* get_symbol: walk outward from the current scope; the global table has
\* no parent, and a key bound nowhere yields nil_obj.
get_symbol(tabs, cur, key) ==
  LET s == FindScope(tabs, cur, key)
  IN IF s = 0 THEN nil_obj ELSE tabs[s].map[key]

\* Mutant of new_scope_prev: every scope is chained to the global table,
\* where the functions are defined.
new_scope_prev_Global(cur) == 1

\* The scope a new scope is chained to: the one current when it is entered.
new_scope_prev(cur) == cur

\* enter_scope_with: the tables with the new scope added; it becomes current.
enter_scope_with(tabs, cur, m) ==
  Append(tabs, SymTable(m, new_scope_prev(cur)))

\* Mutant of exit_scope_to: the deleted scope stays current.
exit_scope_to_Stay(tabs, cur) == cur

\* exit_scope: the scope that becomes current, and the tables once the
\* current one is deleted.
exit_scope_to(tabs, cur) == IF ValidScope(tabs, cur) THEN tabs[cur].prev ELSE 0
exit_scope_tabs(tabs, cur) ==
  IF cur = Len(tabs) /\ cur > 0 THEN SubSeq(tabs, 1, Len(tabs) - 1) ELSE tabs

\* The names bound in at most k scopes of the chain that starts at scope s,
\* and the scope that follows them.
RECURSIVE WalkNames(_, _, _)
WalkNames(tabs, s, k) ==
  IF ~ValidScope(tabs, s) THEN [names |-> {}, next |-> 0]
  ELSE IF k <= 1
    THEN [names |-> DOMAIN tabs[s].map, next |-> tabs[s].prev]
    ELSE CHOOSE v \in UNION {UNION {
           {[names |-> a.names \cup b.names, next |-> b.next] :
              b \in {WalkNames(tabs, a.next, k - h)}} :
              a \in {WalkNames(tabs, s, h)}} : h \in {k \div 2}} : TRUE

\* Every name visible from scope cur, with the object it resolves to.
VisibleNames(tabs, cur) == WalkNames(tabs, cur, Len(tabs)).names
Resolution(tabs, cur) ==
  [n \in VisibleNames(tabs, cur) |-> get_symbol(tabs, cur, n)]

---------------------------------------------------------------------------
(* Activation records                                                      *)

\* One call in flight: the function, where it stands, the expression it was
\* given, and its local variables (fobj; arg_idx / body_expr_idx / cond_idx;
\* add_res / left_op / varg_lobj / new_list / last_evaluated; locals).  The
\* history fields of a call of a user-defined function: snap, the caller's
\* name resolution when the body started; scope0 and depth0, the current
\* scope and the call-depth counter when call_function was called; evald,
\* the expressions the call has handed to eval_expr to bind its parameters,
\* in order.
Fr(fn, expr) ==
  [fn |-> fn, pc |-> "start", expr |-> expr, fobj |-> 0, idx |-> 0,
   acc |-> 0, locals |-> EmptyMap, snap |-> EmptyMap, scope0 |-> 0,
   depth0 |-> 0, evald |-> <<>>]

Top == stack[Len(stack)]
Rest == SubSeq(stack, 1, Len(stack) - 1)
At(fns, pcs) ==
  /\ status = "running"
  /\ stack # <<>>
  /\ Top.fn \in fns
  /\ Top.pc \in pcs

\* return v
ReturnTo(v) == stack' = Rest /\ ret' = v
\* suspend as frame fr and call eval_expr(e)
CallEval(fr, e) ==
  stack' = Rest \o <<fr, Fr("eval_expr", e)>> /\ ret' = ret
\* continue as frame fr (also: return f(...), a call in tail position)
Goto(fr) == stack' = Rest \o <<fr>> /\ ret' = ret

ErrNotCallable == "is not callable"
ErrSymbolNotFound == "Symbol not found"
ErrMaxStack == "Max call stack size reached"
ErrDefDot == "apply (.) operator in function definition incorrectly placed"
ErrCallDot == "dot notation on the caller side must be followed by a list"
ErrCallDotList == "dot operator on caller side should be followed by a list"
ErrArity == "wrong number of arguments"
ErrNotList == "only operates on lists"
ErrFunDef == "Function should have an argument list and a body"

---------------------------------------------------------------------------
(* load_file: read and evaluate top-level expressions until the text ends  *)

\* Mutant of load_file_more: the loop never ends.
load_file_more_Always(pos, len) == TRUE

\* The condition of load_file's loop.
load_file_more(pos, len) == pos < len

\* The largest distance beyond the terminating NUL at which the memory
\* after the text holds a newline.
MaxOverrun == 2

\* One turn of load_file's loop up to the call of eval_expr.  A comment
\* with no newline after it makes read_expr scan the memory beyond the
\* text: the process is killed by the access, or a newline is found k
\* characters beyond the NUL and the cursor stops after it, beyond the end;
\* at top level read_expr then returns nil_obj, inside a list read_list
\* finds the list unclosed and exits.
LoadFileRead ==
  /\ At({"load_file"}, {"start"})
  /\ load_file_more(text_pos, Len(text))
  /\ LET r == read_expr(text, text_pos, heap)
     IN /\ heap' = r.heap
        /\ CASE r.st = "ok" ->
                  /\ text_pos' = r.pos
                  /\ CallEval(Top, r.obj)
                  /\ status' = status
             [] r.st \in {"ub", "ub_list"} ->
                  \/ /\ text_pos' = r.pos
                     /\ status' = "crash"
                     /\ UNCHANGED <<stack, ret>>
                  \/ \E k \in 1..MaxOverrun :
                       /\ text_pos' = Len(text) + k + 1
                       /\ IF r.st = "ub"
                            THEN CallEval(Top, nil_obj) /\ status' = status
                            ELSE status' = "exit" /\ UNCHANGED <<stack, ret>>
             [] OTHER ->
                  /\ text_pos' = r.pos
                  /\ status' = r.st
                  /\ UNCHANGED <<stack, ret>>
  /\ UNCHANGED <<text, symtabs, symtable, call_stack_size, out>>

LoadFileDone ==
  /\ At({"load_file"}, {"start"})
  /\ ~load_file_more(text_pos, Len(text))
  /\ stack' = Rest
  /\ status' = "done"
  /\ UNCHANGED <<text, text_pos, heap, symtabs, symtable, call_stack_size,
                 ret, out>>

---------------------------------------------------------------------------
(* eval_expr                                                               *)

\* Mutant of IsEvaluated: the short-circuit is never taken.
IsEvaluated_Never(h, e) == FALSE

IsEvaluated(h, e) == has_flag(h, e, OF_EVALUATED)
is_callable(h, o) == h[o].type = "Function"

\* Entry of eval_expr(expr), up to its first recursive call or its return.
EvalExprStart ==
  /\ At({"eval_expr"}, {"start"})
  /\ LET e == Top.expr
         res == get_symbol(symtabs, symtable, heap[e].s)
     IN CASE IsEvaluated(heap, e) ->
               ReturnTo(e) /\ UNCHANGED <<heap, out>>
          [] ~IsEvaluated(heap, e) /\ heap[e].type = "Symbol" ->
               IF res = 0
                 THEN /\ out' = Append(out, ErrSymbolNotFound)
                      /\ ReturnTo(nil_obj)
                      /\ heap' = heap
                 ELSE /\ IF ~IsEvaluated(heap, res)
                           THEN CallEval([Top EXCEPT !.pc = "sym"], res)
                           ELSE ReturnTo(res)
                      /\ UNCHANGED <<heap, out>>
          [] ~IsEvaluated(heap, e) /\ heap[e].type = "List"
               /\ has_flag(heap, e, OF_LIST_LITERAL) ->
               /\ IF Len(heap[e].l) = 0
                    THEN ReturnTo(e) /\ heap' = set_flag(heap, e, OF_EVALUATED)
                    ELSE /\ CallEval([Top EXCEPT !.pc = "lit", !.idx = 0],
                                     list_index(heap, e, 0))
                         /\ heap' = heap
               /\ out' = out
          [] ~IsEvaluated(heap, e) /\ heap[e].type = "List"
               /\ ~has_flag(heap, e, OF_LIST_LITERAL) ->
               /\ IF Len(heap[e].l) = 0
                    THEN ReturnTo(e)
                    ELSE CallEval([Top EXCEPT !.pc = "op"],
                                  list_index(heap, e, 0))
               /\ UNCHANGED <<heap, out>>
          [] OTHER -> ReturnTo(e) /\ UNCHANGED <<heap, out>>
  /\ UNCHANGED <<text, text_pos, symtabs, symtable, call_stack_size, status>>

\* Symbol case, after eval_expr(res) returned: mark the result Evaluated and
\* save it under the symbol's name with set_symbol.
EvalSymbolMemo ==
  /\ At({"eval_expr"}, {"sym"})
  /\ heap' = set_flag(heap, ret, OF_EVALUATED)
  /\ symtabs' = set_symbol(symtabs, symtable, heap[Top.expr].s, ret)
  /\ ReturnTo(ret)
  /\ UNCHANGED <<text, text_pos, symtable, call_stack_size, out, status>>

\* List-literal case, after the element at idx was evaluated: store the
\* result in its slot and go on, or mark the list Evaluated and return it.
EvalLiteralElem ==
  /\ At({"eval_expr"}, {"lit"})
  /\ LET e == Top.expr
         i == Top.idx
         h1 == [heap EXCEPT ![e].l[i + 1] = ret]
     IN IF i + 1 < Len(h1[e].l)
          THEN /\ heap' = h1
               /\ CallEval([Top EXCEPT !.idx = i + 1], list_index(h1, e, i + 1))
          ELSE /\ heap' = set_flag(h1, e, OF_EVALUATED)
               /\ ReturnTo(e)
  /\ UNCHANGED <<text, text_pos, symtabs, symtable, call_stack_size, out,
                 status>>

\* Call form, after the operator was evaluated: dispatch on the callable.
EvalCallDispatch ==
  /\ At({"eval_expr"}, {"op"})
  /\ LET e == Top.expr
         callable == ret
     IN IF ~is_callable(heap, callable)
          THEN /\ out' = Append(out, ErrNotCallable)
               /\ ReturnTo(nil_obj)
          ELSE /\ out' = out
               /\ IF has_flag(heap, callable, OF_BUILTIN)
                    THEN Goto(Fr(heap[callable].s, e))
                    ELSE Goto([Fr("call_function", e) EXCEPT
                                 !.fobj = callable,
                                 !.scope0 = symtable,
                                 !.depth0 = call_stack_size])
  /\ UNCHANGED <<text, text_pos, heap, symtabs, symtable, call_stack_size,
                 status>>

---------------------------------------------------------------------------
(* The binary object operations and the display text of an object: the     *)
(* external collaborators of spec §6 (objects.hpp), modelled on numbers.   *)

ObjRes(h, o) == [heap |-> h, obj |-> o]
NumResult(h, v) == ObjRes(Append(h, create_num_obj(v)), Len(h) + 1)
BoolResult(h, b) == ObjRes(h, IF b THEN true_obj ELSE false_obj)

RECURSIVE Power(_, _)
Power(x, y) == IF y <= 0 THEN 1 ELSE x * Power(x, y - 1)

objects_op(name, h, a, b) ==
  LET x == h[a].i
      y == h[b].i
  IN IF h[a].type # "Number" \/ h[b].type # "Number"
       THEN IF name = "=" THEN BoolResult(h, a = b) ELSE ObjRes(h, nil_obj)
       ELSE CASE name = "+" -> NumResult(h, x + y)
              [] name = "-" -> NumResult(h, x - y)
              [] name = "*" -> NumResult(h, x * y)
              [] name = "/" ->
                   IF y = 0 THEN ObjRes(h, nil_obj) ELSE NumResult(h, x \div y)
              [] name = "**" -> NumResult(h, Power(x, y))
              [] name = "=" -> BoolResult(h, x = y)
              [] name = ">" -> BoolResult(h, x > y)
              [] OTHER -> BoolResult(h, x < y)

obj_to_string(h, o) ==
  CASE h[o].type = "Number" -> ToString(h[o].i)
    [] h[o].type \in {"String", "Symbol"} -> h[o].s
    [] h[o].type = "Nil" -> "nil"
    [] h[o].type = "Bool" -> IF o = true_obj THEN "true" ELSE "false"
    [] h[o].type = "List" -> "(list)"
    [] OTHER -> "(function)"

---------------------------------------------------------------------------
(* Built-ins: each handler receives the unevaluated call form Top.expr     *)

Elems == heap[Top.expr].l

\* add_objects / sub_objects: at least two operands, else an error and Nil.
AddSubStart ==
  /\ At({"+", "-"}, {"start"})
  /\ IF Len(Elems) - 1 < 2
       THEN out' = Append(out, ErrArity) /\ ReturnTo(nil_obj)
       ELSE out' = out /\ CallEval([Top EXCEPT !.pc = "first"], Elems[2])
  /\ UNCHANGED <<text, text_pos, heap, symtabs, symtable, call_stack_size,
                 status>>

\* The fold of add_objects / sub_objects over the operands, left to right.
AddSubFold ==
  /\ At({"+", "-"}, {"first", "fold"})
  /\ LET r == IF Top.pc = "first" THEN ObjRes(heap, ret)
              ELSE objects_op(Top.fn, heap, Top.acc, ret)
         arg_idx == IF Top.pc = "first" THEN 2 ELSE Top.idx + 1
     IN /\ heap' = r.heap
        /\ IF arg_idx < Len(Elems)
             THEN CallEval([Top EXCEPT !.pc = "fold", !.acc = r.obj,
                                       !.idx = arg_idx], Elems[arg_idx + 1])
             ELSE ReturnTo(r.obj)
  /\ UNCHANGED <<text, text_pos, symtabs, symtable, call_stack_size, out,
                 status>>

BinaryNames == {"*", "/", "**", "=", ">", "<"}

\* binary_builtin: exactly two operands, else an error and Nil.
BinaryStart ==
  /\ At(BinaryNames, {"start"})
  /\ IF Len(Elems) # 3
       THEN out' = Append(out, ErrArity) /\ ReturnTo(nil_obj)
       ELSE out' = out /\ CallEval([Top EXCEPT !.pc = "left"], Elems[2])
  /\ UNCHANGED <<text, text_pos, heap, symtabs, symtable, call_stack_size,
                 status>>

BinaryLeft ==
  /\ At(BinaryNames, {"left"})
  /\ CallEval([Top EXCEPT !.pc = "right", !.acc = ret], Elems[3])
  /\ UNCHANGED <<text, text_pos, heap, symtabs, symtable, call_stack_size,
                 out, status>>

BinaryRight ==
  /\ At(BinaryNames, {"right"})
  /\ LET r == objects_op(Top.fn, heap, Top.acc, ret)
     IN heap' = r.heap /\ ReturnTo(r.obj)
  /\ UNCHANGED <<text, text_pos, symtabs, symtable, call_stack_size, out,
                 status>>

\* Mutant of setq_arity_ok: more than two operands are accepted.
setq_arity_ok_AtLeast(args_len) == args_len >= 2

\* The operand count setq_builtin accepts.
setq_arity_ok(args_len) == args_len = 2

\* setq_builtin: exactly two operands; the value expression is evaluated.
SetqStart ==
  /\ At({"setq"}, {"start"})
  /\ IF ~setq_arity_ok(Len(Elems) - 1)
       THEN out' = Append(out, ErrArity) /\ ReturnTo(nil_obj)
       ELSE out' = out /\ CallEval([Top EXCEPT !.pc = "value"], Elems[3])
  /\ UNCHANGED <<text, text_pos, heap, symtabs, symtable, call_stack_size,
                 status>>

\* Mutant of setq_value: the name is bound to the value expression itself.
setq_value_Lazy(valueExpr, evaluated) == valueExpr

\* The object setq binds the name to: the evaluated value.
setq_value(valueExpr, evaluated) == evaluated

\* setq_builtin, after the value was evaluated: bind it in the current scope.
SetqBind ==
  /\ At({"setq"}, {"value"})
  /\ symtabs' = set_symbol(symtabs, symtable, heap[Elems[2]].s,
                           setq_value(Elems[3], ret))
  /\ ReturnTo(nil_obj)
  /\ UNCHANGED <<text, text_pos, heap, symtable, call_stack_size, out,
                 status>>

\* The loop of print_builtin from operand arg_idx on, having printed o.
PrintLoop(arg_idx, o) ==
  IF arg_idx < Len(Elems)
    THEN /\ CallEval([Top EXCEPT !.pc = "arg", !.idx = arg_idx],
                     Elems[arg_idx + 1])
         /\ out' = o
    ELSE /\ out' = Append(o, "\n")
         /\ ReturnTo(nil_obj)

PrintStart ==
  /\ At({"print"}, {"start"})
  /\ PrintLoop(1, out)
  /\ UNCHANGED <<text, text_pos, heap, symtabs, symtable, call_stack_size,
                 status>>

PrintArg ==
  /\ At({"print"}, {"arg"})
  /\ PrintLoop(Top.idx + 1, Append(out, obj_to_string(heap, ret)))
  /\ UNCHANGED <<text, text_pos, heap, symtabs, symtable, call_stack_size,
                 status>>

\* The function object defun / lambda build: the parameter list and, as the
\* body, the whole defining form.
create_fun_obj(fundef_list, expr, lambda) ==
  [new_object("Function") EXCEPT !.funargs = fundef_list, !.funbody = expr,
                                 !.flags = IF lambda THEN {OF_LAMBDA} ELSE {}]

\* defun_builtin: (defun (name params...) body...); the function is also
\* bound under its name in the current scope.  at(0) of an empty definition
\* list throws.
DefunBuiltin ==
  /\ At({"defun"}, {"start"})
  /\ IF Len(Elems) < 3 \/ ~is_list(heap, Elems[2])
       THEN /\ out' = Append(out, ErrFunDef)
            /\ ReturnTo(nil_obj)
            /\ UNCHANGED <<heap, symtabs, status>>
       ELSE IF list_length(heap, Elems[2]) = 0
         THEN /\ status' = "crash"
              /\ heap' = Append(heap, create_fun_obj(Elems[2], Top.expr, FALSE))
              /\ UNCHANGED <<out, symtabs, stack, ret>>
         ELSE /\ heap' = Append(heap, create_fun_obj(Elems[2], Top.expr, FALSE))
              /\ symtabs' = set_symbol(symtabs, symtable,
                                       heap[list_index(heap, Elems[2], 0)].s,
                                       Len(heap) + 1)
              /\ ReturnTo(Len(heap) + 1)
              /\ UNCHANGED <<out, status>>
  /\ UNCHANGED <<text, text_pos, symtable, call_stack_size>>

\* lambda_builtin: (lambda (params...) body...).
LambdaBuiltin ==
  /\ At({"lambda"}, {"start"})
  /\ IF Len(Elems) < 3 \/ ~is_list(heap, Elems[2])
       THEN /\ out' = Append(out, ErrFunDef)
            /\ ReturnTo(nil_obj)
            /\ heap' = heap
       ELSE /\ heap' = Append(heap, create_fun_obj(Elems[2], Top.expr, TRUE))
            /\ ReturnTo(Len(heap) + 1)
            /\ out' = out
  /\ UNCHANGED <<text, text_pos, symtabs, symtable, call_stack_size, status>>

\* if_builtin: exactly three operands; the condition is evaluated first.
IfStart ==
  /\ At({"if"}, {"start"})
  /\ IF Len(Elems) # 4
       THEN out' = Append(out, ErrArity) /\ ReturnTo(nil_obj)
       ELSE out' = out /\ CallEval([Top EXCEPT !.pc = "condition"], Elems[2])
  /\ UNCHANGED <<text, text_pos, heap, symtabs, symtable, call_stack_size,
                 status>>

\* Mutant of if_branch: the branches are exchanged.
if_branch_Swapped(truthy, then_expr, else_expr) ==
  IF truthy THEN else_expr ELSE then_expr

\* The branch if_builtin goes on with, given the condition's truth.
if_branch(truthy, then_expr, else_expr) ==
  IF truthy THEN then_expr ELSE else_expr

\* if_builtin, after the condition: return eval_expr of the chosen branch.
IfBranch ==
  /\ At({"if"}, {"condition"})
  /\ Goto(Fr("eval_expr", if_branch(is_truthy(ret), Elems[3], Elems[4])))
  /\ UNCHANGED <<text, text_pos, heap, symtabs, symtable, call_stack_size,
                 out, status>>

\* car / cadr / cdr up to the evaluation of the operand; cdr creates its
\* result list first.  An operand that is missing is an access outside the
\* call form.
ListOpStart ==
  /\ At({"car", "cadr", "cdr"}, {"start"})
  /\ heap' = IF Top.fn = "cdr" THEN Append(heap, create_list_obj) ELSE heap
  /\ IF Len(Elems) < 2
       THEN status' = "crash" /\ UNCHANGED <<stack, ret>>
       ELSE /\ status' = status
            /\ CallEval([Top EXCEPT !.pc = "arg", !.acc = Len(heap) + 1],
                        Elems[2])
  /\ UNCHANGED <<text, text_pos, symtabs, symtable, call_stack_size, out>>

\* car_builtin / cadr_builtin, after the operand was evaluated.
CarCadrArg ==
  /\ At({"car", "cadr"}, {"arg"})
  /\ LET k == IF Top.fn = "car" THEN 0 ELSE 1
     IN IF ~is_list(heap, ret)
          THEN out' = Append(out, ErrNotList) /\ ReturnTo(nil_obj)
          ELSE /\ out' = out
               /\ IF list_length(heap, ret) < k + 1
                    THEN ReturnTo(nil_obj)
                    ELSE ReturnTo(list_index(heap, ret, k))
  /\ UNCHANGED <<text, text_pos, heap, symtabs, symtable, call_stack_size,
                 status>>

\* Mutant of cdr_items: the copy loop starts at index 0.
cdr_items_FromZero(items) == items

\* The elements cdr copies into its new list: those from index 1 on.
cdr_items(items) == SubSeq(items, 2, Len(items))

\* cdr_builtin, after the operand was evaluated.
CdrArg ==
  /\ At({"cdr"}, {"arg"})
  /\ IF ~is_list(heap, ret)
       THEN /\ out' = Append(out, ErrNotList)
            /\ ReturnTo(nil_obj)
            /\ heap' = heap
       ELSE /\ out' = out
            /\ IF list_length(heap, ret) < 1
                 THEN ReturnTo(ret) /\ heap' = heap
                 ELSE /\ heap' = [heap EXCEPT
                                    ![Top.acc].l = cdr_items(heap[ret].l),
                                    ![Top.acc].flags = @ \cup {OF_EVALUATED}]
                      /\ ReturnTo(Top.acc)
  /\ UNCHANGED <<text, text_pos, symtabs, symtable, call_stack_size, status>>

\* The loop of cond_builtin from pair cond_idx on.
CondLoop(cond_idx) ==
  IF cond_idx < Len(Elems)
    THEN CallEval([Top EXCEPT !.pc = "test", !.idx = cond_idx],
                  list_index(heap, Elems[cond_idx + 1], 0))
    ELSE ReturnTo(nil_obj)

CondStart ==
  /\ At({"cond"}, {"start"})
  /\ IF Len(Elems) < 2
       THEN out' = Append(out, ErrArity) /\ ReturnTo(nil_obj)
       ELSE out' = out /\ CondLoop(1)
  /\ UNCHANGED <<text, text_pos, heap, symtabs, symtable, call_stack_size,
                 status>>

\* Mutant of cond_taken: every test is taken.
cond_taken_Always(cond_evaluated) == TRUE

\* The pair of cond is taken: its test is the else sentinel or truthy.
cond_taken(cond_evaluated) ==
  cond_evaluated = else_obj \/ is_truthy(cond_evaluated)

\* cond_builtin, after a test was evaluated.
CondTest ==
  /\ At({"cond"}, {"test"})
  /\ IF cond_taken(ret)
       THEN Goto(Fr("eval_expr", list_index(heap, Elems[Top.idx + 1], 1)))
       ELSE CondLoop(Top.idx + 1)
  /\ UNCHANGED <<text, text_pos, heap, symtabs, symtable, call_stack_size,
                 out, status>>

---------------------------------------------------------------------------
(* call_function: the call protocol of user-defined functions              *)

MAX_STACK_SIZE == 256

\* The guard at the entry of call_function.
DepthExceeded(n) == n > MAX_STACK_SIZE

IsLambda(h, fobj) == has_flag(h, fobj, OF_LAMBDA)
\* A defun's parameter list starts with the function's name; a lambda's
\* call form starts with the lambda expression.
starting_arg_idx(is_lambda) == IF is_lambda THEN 0 ELSE 1
provided_arg_offset(is_lambda) == IF is_lambda THEN 1 ELSE 0

\* The declared parameter list, the provided call form and the body form.
ArgList(fr) == heap[heap[fr.fobj].funargs].l
Provided(fr) == heap[fr.expr].l
Body(fr) == heap[heap[fr.fobj].funbody].l

\* The index in the call form where the collection of variadic arguments
\* starts, the dot being at arg_idx of the parameter list.
variadic_first(arg_idx) == arg_idx

\* Mutant of provided_index: each parameter takes the argument of the next.
provided_index_Shifted(arg_idx, is_lambda) ==
  provided_arg_offset(is_lambda) + arg_idx + 1

\* The index in the call form of the argument for parameter arg_idx.
provided_index(arg_idx, is_lambda) == provided_arg_offset(is_lambda) + arg_idx

\* The first index >= from of the call form that holds the dot sentinel,
\* or -1.
RECURSIVE DotPos(_, _)
DotPos(provided, from) ==
  IF from >= Len(provided) THEN -1
  ELSE IF provided[from + 1] = dot_obj THEN from
  ELSE DotPos(provided, from + 1)

\* Mutant of CallFunctionStart: the depth error is reported and the call
\* goes on.
CallFunctionStart_Continue ==
  /\ At({"call_function"}, {"start"})
  /\ out' = IF DepthExceeded(call_stack_size)
              THEN Append(out, ErrMaxStack) ELSE out
  /\ Goto([Top EXCEPT !.pc = "bind",
                      !.idx = starting_arg_idx(IsLambda(heap, Top.fobj)),
                      !.locals = EmptyMap])
  /\ UNCHANGED <<text, text_pos, heap, symtabs, symtable, call_stack_size,
                 status>>

CallFunctionStart ==
  /\ At({"call_function"}, {"start"})
  /\ IF DepthExceeded(call_stack_size)
       THEN /\ out' = Append(out, ErrMaxStack)
            /\ ReturnTo(nil_obj)
       ELSE /\ out' = out
            /\ Goto([Top EXCEPT
                       !.pc = "bind",
                       !.idx = starting_arg_idx(IsLambda(heap, Top.fobj)),
                       !.locals = EmptyMap])
  /\ UNCHANGED <<text, text_pos, heap, symtabs, symtable, call_stack_size,
                 status>>

\* One turn of the parameter loop, up to the evaluation of the argument (or
\* of the collected variadic list), an error return, or the loop's end.
CallFunctionBind ==
  /\ At({"call_function"}, {"bind"})
  /\ LET arglistl == ArgList(Top)
         provided == Provided(Top)
         arg_idx == Top.idx
         is_lambda == IsLambda(heap, Top.fobj)
         arg == arglistl[arg_idx + 1]
         varg_lobj == Len(heap) + 1
         from == variadic_first(arg_idx)
         dot == DotPos(provided, from)
         upto == IF dot < 0 THEN Len(provided) ELSE dot
         h1 == Append(heap, [create_data_list_obj EXCEPT
                               !.l = SubSeq(provided, from + 1, upto)])
         pidx == provided_index(arg_idx, is_lambda)
     IN IF arg_idx >= Len(arglistl)
          THEN Goto([Top EXCEPT !.pc = "enter"])
               /\ UNCHANGED <<heap, out, status>>
          ELSE IF arg = dot_obj
            THEN IF arg_idx # Len(arglistl) - 2
                   THEN /\ out' = Append(out, ErrDefDot)
                        /\ ReturnTo(nil_obj)
                        /\ UNCHANGED <<heap, status>>
                   ELSE IF dot < 0
                     THEN /\ heap' = h1
                          /\ CallEval([Top EXCEPT
                                         !.pc = "vbound",
                                         !.acc = varg_lobj,
                                         !.evald = Append(@, varg_lobj)],
                                      varg_lobj)
                          /\ UNCHANGED <<out, status>>
                     ELSE IF dot # Len(provided) - 2
                       THEN /\ heap' = h1
                            /\ out' = Append(out, ErrCallDot)
                            /\ ReturnTo(nil_obj)
                            /\ status' = status
                       ELSE /\ heap' = h1
                            /\ CallEval([Top EXCEPT
                                           !.pc = "splice",
                                           !.acc = varg_lobj,
                                           !.evald =
                                             Append(@, provided[dot + 2])],
                                        provided[dot + 2])
                            /\ UNCHANGED <<out, status>>
            ELSE IF arg_idx >= Len(provided)
              THEN /\ CallEval([Top EXCEPT !.pc = "bound",
                                           !.evald = Append(@, nil_obj)],
                               nil_obj)
                   /\ UNCHANGED <<heap, out, status>>
              ELSE IF pidx >= Len(provided)
                THEN /\ status' = "crash"
                     /\ UNCHANGED <<heap, out, stack, ret>>
                ELSE /\ CallEval([Top EXCEPT
                                    !.pc = "bound",
                                    !.evald = Append(@, provided[pidx + 1])],
                                 provided[pidx + 1])
                     /\ UNCHANGED <<heap, out, status>>
  /\ UNCHANGED <<text, text_pos, symtabs, symtable, call_stack_size>>

\* Mutant of splice_items: the elements of the expanded list are dropped.
splice_items_Drop(collected, expanded) == collected

\* The collected variadic arguments once the elements of the list that
\* follows the caller's dot are appended.
splice_items(collected, expanded) == collected \o expanded

\* After the list following the caller's dot was evaluated: splice its
\* elements into the collected list, then bind that list.
CallFunctionSplice ==
  /\ At({"call_function"}, {"splice"})
  /\ IF ~is_list(heap, ret)
       THEN /\ out' = Append(out, ErrCallDotList)
            /\ ReturnTo(nil_obj)
            /\ heap' = heap
       ELSE /\ out' = out
            /\ heap' = [heap EXCEPT
                         ![Top.acc].l = splice_items(@, heap[ret].l)]
            /\ CallEval([Top EXCEPT !.pc = "vbound",
                                    !.evald = Append(@, Top.acc)], Top.acc)
  /\ UNCHANGED <<text, text_pos, symtabs, symtable, call_stack_size, status>>

\* set_symbol_local, after the value was evaluated: store it in locals.  A
\* fixed parameter continues the loop; the variadic one ends it.
CallFunctionBound ==
  /\ At({"call_function"}, {"bound", "vbound"})
  /\ LET arglistl == ArgList(Top)
     IN IF Top.pc = "bound"
          THEN Goto([Top EXCEPT
                       !.locals = Put(@, heap[arglistl[Top.idx + 1]].s, ret),
                       !.idx = @ + 1,
                       !.pc = "bind"])
          ELSE Goto([Top EXCEPT
                       !.locals = Put(@, heap[arglistl[Top.idx + 2]].s, ret),
                       !.pc = "enter"])
  /\ UNCHANGED <<text, text_pos, heap, symtabs, symtable, call_stack_size,
                 out, status>>

\* ++call_stack_size; enter_scope_with(locals).
CallFunctionEnter ==
  /\ At({"call_function"}, {"enter"})
  /\ call_stack_size' = call_stack_size + 1
  /\ symtabs' = enter_scope_with(symtabs, symtable, Top.locals)
  /\ symtable' = Len(symtabs) + 1
  /\ Goto([Top EXCEPT !.pc = "body", !.idx = 2, !.acc = nil_obj,
                      !.snap = Resolution(symtabs, symtable)])
  /\ UNCHANGED <<text, text_pos, heap, out, status>>

\* The body loop: evaluate the next body expression.
CallFunctionBody ==
  /\ At({"call_function"}, {"body"})
  /\ Top.idx < Len(Body(Top))
  /\ CallEval([Top EXCEPT !.pc = "evaluated"], Body(Top)[Top.idx + 1])
  /\ UNCHANGED <<text, text_pos, heap, symtabs, symtable, call_stack_size,
                 out, status>>

\* last_evaluated = eval_expr(...); ++body_expr_idx.
CallFunctionBodyNext ==
  /\ At({"call_function"}, {"evaluated"})
  /\ Goto([Top EXCEPT !.pc = "body", !.acc = ret, !.idx = @ + 1])
  /\ UNCHANGED <<text, text_pos, heap, symtabs, symtable, call_stack_size,
                 out, status>>

\* exit_scope(); --call_stack_size; return last_evaluated.
CallFunctionExit ==
  /\ At({"call_function"}, {"body"})
  /\ Top.idx >= Len(Body(Top))
  /\ symtable' = exit_scope_to(symtabs, symtable)
  /\ symtabs' = exit_scope_tabs(symtabs, symtable)
  /\ call_stack_size' = call_stack_size - 1
  /\ ReturnTo(Top.acc)
  /\ UNCHANGED <<text, text_pos, heap, out, status>>

---------------------------------------------------------------------------
(* Program texts                                                           *)

\* (defun (f) (f)) (f)
ProgRecurse ==
  <<"(","d","e","f","u","n"," ","(","f",")"," ","(","f",")",")"," ","(","f",
    ")">>

\* (setq x 1) (defun (g) (setq x 2) (setq y 3) x) (g) (print x y)
ProgScope ==
  <<"(","s","e","t","q"," ","x"," ","1",")"," ","(","d","e","f","u","n"," ",
    "(","g",")"," ","(","s","e","t","q"," ","x"," ","2",")"," ","(","s","e",
    "t","q"," ","y"," ","3",")"," ","x",")"," ","(","g",")"," ","(","p","r",
    "i","n","t"," ","x"," ","y",")">>

\* (setq x 1) (defun (g) x) (defun (h x) (g)) (h 2)
ProgDynamic ==
  <<"(","s","e","t","q"," ","x"," ","1",")"," ","(","d","e","f","u","n"," ",
    "(","g",")"," ","x",")"," ","(","d","e","f","u","n"," ","(","h"," ","x",
    ")"," ","(","g",")",")"," ","(","h"," ","2",")">>

\* (setq a 1) zz (print "k")
ProgUnbound ==
  <<"(","s","e","t","q"," ","a"," ","1",")"," ","z","z"," ","(","p","r","i",
    "n","t"," ","\"","k","\"",")">>

\* (defun (g) 1) (defun (h) (g)) (h)
ProgMemo ==
  <<"(","d","e","f","u","n"," ","(","g",")"," ","1",")"," ","(","d","e","f",
    "u","n"," ","(","h",")"," ","(","g",")",")"," ","(","h",")">>

\* (setq x (print "a")) x x (defun (g) y x) (defun (f y) y y (g)) (f (print "b"))
ProgPrintOnce ==
  <<"(","s","e","t","q"," ","x"," ","(","p","r","i","n","t"," ","\"","a",
    "\"",")",")"," ","x"," ","x"," ","(","d","e","f","u","n"," ","(","g",
    ")"," ","y"," ","x",")"," ","(","d","e","f","u","n"," ","(","f"," ","y",
    ")"," ","y"," ","y"," ","(","g",")",")"," ","(","f"," ","(","p","r","i",
    "n","t"," ","\"","b","\"",")",")">>

\* (setq l '(1 (print "c") x)) l l (defun (k) '(1 2)) (k) (k)
ProgLiteral ==
  <<"(","s","e","t","q"," ","l"," ","'","(","1"," ","(","p","r","i","n","t",
    " ","\"","c","\"",")"," ","x",")",")"," ","l"," ","l"," ","(","d","e",
    "f","u","n"," ","(","k",")"," ","'","(","1"," ","2",")",")"," ","(","k",
    ")"," ","(","k",")">>

\* (+ 1 2 3) (- 5 2) (* 2 3) (/ 7 2) (** 2 3) (= 1 1) (> 1 2) (< 1 2)
ProgArith ==
  <<"(","+"," ","1"," ","2"," ","3",")"," ","(","-"," ","5"," ","2",")"," ",
    "(","*"," ","2"," ","3",")"," ","(","/"," ","7"," ","2",")"," ","(","*",
    "*"," ","2"," ","3",")"," ","(","="," ","1"," ","1",")"," ","(",">"," ",
    "1"," ","2",")"," ","(","<"," ","1"," ","2",")">>

\* (+ (print "x")) (- 1) (* (print "x") 2 3) (/ 1) (** 1) (= 1) (> 1) (< 1 2 3) (if (print "x") 2) (setq x) (setq y (print "x") 3) (cond) (defun f) (lambda x) (print (+ 1 2 3) y)
ProgArity ==
  <<"(","+"," ","(","p","r","i","n","t"," ","\"","x","\"",")",")"," ","(",
    "-"," ","1",")"," ","(","*"," ","(","p","r","i","n","t"," ","\"","x",
    "\"",")"," ","2"," ","3",")"," ","(","/"," ","1",")"," ","(","*","*",
    " ","1",")"," ","(","="," ","1",")"," ","(",">"," ","1",")"," ","(","<",
    " ","1"," ","2"," ","3",")"," ","(","i","f"," ","(","p","r","i","n","t",
    " ","\"","x","\"",")"," ","2",")"," ","(","s","e","t","q"," ","x",")",
    " ","(","s","e","t","q"," ","y"," ","(","p","r","i","n","t"," ","\"",
    "x","\"",")"," ","3",")"," ","(","c","o","n","d",")"," ","(","d","e",
    "f","u","n"," ","f",")"," ","(","l","a","m","b","d","a"," ","x",")"," ",
    "(","p","r","i","n","t"," ","(","+"," ","1"," ","2"," ","3",")"," ","y",
    ")">>

\* (if true (print "a") (print "b")) (if false (print "a") (print "b")) (if (print "c") (print "a") (print "b"))
ProgIf ==
  <<"(","i","f"," ","t","r","u","e"," ","(","p","r","i","n","t"," ","\"",
    "a","\"",")"," ","(","p","r","i","n","t"," ","\"","b","\"",")",")"," ",
    "(","i","f"," ","f","a","l","s","e"," ","(","p","r","i","n","t"," ",
    "\"","a","\"",")"," ","(","p","r","i","n","t"," ","\"","b","\"",")",")",
    " ","(","i","f"," ","(","p","r","i","n","t"," ","\"","c","\"",")"," ",
    "(","p","r","i","n","t"," ","\"","a","\"",")"," ","(","p","r","i","n",
    "t"," ","\"","b","\"",")",")">>

\* (car '(1 2)) (cadr '(1 2)) (car 1) (cadr '(1)) (cdr 1)
ProgListOps ==
  <<"(","c","a","r"," ","'","(","1"," ","2",")",")"," ","(","c","a","d","r",
    " ","'","(","1"," ","2",")",")"," ","(","c","a","r"," ","1",")"," ","(",
    "c","a","d","r"," ","'","(","1",")",")"," ","(","c","d","r"," ","1",
    ")">>

\* (cond ((print "t") (print "a")) ((= 1 1) (print "b")) ((print "u") (print "c")) (else (print "d"))) (cond (false (print "a")) (else (print "e")) ((print "u") (print "c"))) (cond ((print "v") (print "a")) (false (print "b")))
ProgCond ==
  <<"(","c","o","n","d"," ","(","(","p","r","i","n","t"," ","\"","t","\"",
    ")"," ","(","p","r","i","n","t"," ","\"","a","\"",")",")"," ","(","(",
    "="," ","1"," ","1",")"," ","(","p","r","i","n","t"," ","\"","b","\"",
    ")",")"," ","(","(","p","r","i","n","t"," ","\"","u","\"",")"," ","(",
    "p","r","i","n","t"," ","\"","c","\"",")",")"," ","(","e","l","s","e",
    " ","(","p","r","i","n","t"," ","\"","d","\"",")",")",")"," ","(","c",
    "o","n","d"," ","(","f","a","l","s","e"," ","(","p","r","i","n","t"," ",
    "\"","a","\"",")",")"," ","(","e","l","s","e"," ","(","p","r","i","n",
    "t"," ","\"","e","\"",")",")"," ","(","(","p","r","i","n","t"," ","\"",
    "u","\"",")"," ","(","p","r","i","n","t"," ","\"","c","\"",")",")",")",
    " ","(","c","o","n","d"," ","(","(","p","r","i","n","t"," ","\"","v",
    "\"",")"," ","(","p","r","i","n","t"," ","\"","a","\"",")",")"," ","(",
    "f","a","l","s","e"," ","(","p","r","i","n","t"," ","\"","b","\"",")",
    ")",")">>

\* (defun (f a . r) r) (f 1 . '(2 3)) (f 1 . (2 3)) (f 1 . 2 3) (f 1 . 2)
ProgSplice ==
  <<"(","d","e","f","u","n"," ","(","f"," ","a"," ","."," ","r",")"," ","r",
    ")"," ","(","f"," ","1"," ","."," ","'","(","2"," ","3",")",")"," ","(",
    "f"," ","1"," ","."," ","(","2"," ","3",")",")"," ","(","f"," ","1"," ",
    "."," ","2"," ","3",")"," ","(","f"," ","1"," ","."," ","2",")">>

\* (defun (f . a b) a) (f 1 2)
ProgBadDot ==
  <<"(","d","e","f","u","n"," ","(","f"," ","."," ","a"," ","b",")"," ","a",
    ")"," ","(","f"," ","1"," ","2",")">>

\* (1 2) () (print (+ 1 "s"))
ProgNotCallable ==
  <<"(","1"," ","2",")"," ","(",")"," ","(","p","r","i","n","t"," ","(","+",
    " ","1"," ","\"","s","\"",")",")">>

\* (defun (f a . r) r) (defun (g a . r) a) (setq p (f 1 2 3)) (setq q (f 1 . '(2 3))) (setq s (g 1 2 3)) (setq t (g 1 . '(2 3)))
ProgSpliceEq ==
  <<"(","d","e","f","u","n"," ","(","f"," ","a"," ","."," ","r",")"," ","r",
    ")"," ","(","d","e","f","u","n"," ","(","g"," ","a"," ","."," ","r",")",
    " ","a",")"," ","(","s","e","t","q"," ","p"," ","(","f"," ","1"," ","2",
    " ","3",")",")"," ","(","s","e","t","q"," ","q"," ","(","f"," ","1"," ",
    "."," ","'","(","2"," ","3",")",")",")"," ","(","s","e","t","q"," ","s",
    " ","(","g"," ","1"," ","2"," ","3",")",")"," ","(","s","e","t","q"," ",
    "t"," ","(","g"," ","1"," ","."," ","'","(","2"," ","3",")",")",")">>

\* (setq f (lambda (a . r) r)) (setq g (lambda (a . r) a)) (setq p (f 1 2 3)) (setq q (f 1 . '(2 3))) (setq s (g 1 2 3)) (setq t (g 1 . '(2 3)))
ProgSpliceEqLambda ==
  <<"(","s","e","t","q"," ","f"," ","(","l","a","m","b","d","a"," ","(","a",
    " ","."," ","r",")"," ","r",")",")"," ","(","s","e","t","q"," ","g"," ",
    "(","l","a","m","b","d","a"," ","(","a"," ","."," ","r",")"," ","a",")",
    ")"," ","(","s","e","t","q"," ","p"," ","(","f"," ","1"," ","2"," ","3",
    ")",")"," ","(","s","e","t","q"," ","q"," ","(","f"," ","1"," ","."," ",
    "'","(","2"," ","3",")",")",")"," ","(","s","e","t","q"," ","s"," ","(",
    "g"," ","1"," ","2"," ","3",")",")"," ","(","s","e","t","q"," ","t"," ",
    "(","g"," ","1"," ","."," ","'","(","2"," ","3",")",")",")">>

\* ; c\n(print 1)\n(print 2) \n
ProgComment ==
  <<";"," ","c","\n","(","p","r","i","n","t"," ","1",")","\n","(","p","r",
    "i","n","t"," ","2",")"," ","\n">>

\* (setq a 7) (defun (f a b) (print a b)) (f 1 a) (f (setq z 5) (print "x")) (print z) (f (print "l") (print "r") (print "s"))
ProgArgs ==
  <<"(","s","e","t","q"," ","a"," ","7",")"," ","(","d","e","f","u","n"," ",
    "(","f"," ","a"," ","b",")"," ","(","p","r","i","n","t"," ","a"," ","b",
    ")",")"," ","(","f"," ","1"," ","a",")"," ","(","f"," ","(","s","e","t",
    "q"," ","z"," ","5",")"," ","(","p","r","i","n","t"," ","\"","x","\"",
    ")",")"," ","(","p","r","i","n","t"," ","z",")"," ","(","f"," ","(","p",
    "r","i","n","t"," ","\"","l","\"",")"," ","(","p","r","i","n","t"," ",
    "\"","r","\"",")"," ","(","p","r","i","n","t"," ","\"","s","\"",")",
    ")">>

\* (defun (f a) (f (print "x"))) (f 1)
ProgRecurseArgs ==
  <<"(","d","e","f","u","n"," ","(","f"," ","a",")"," ","(","f"," ","(","p",
    "r","i","n","t"," ","\"","x","\"",")",")",")"," ","(","f"," ","1",")">>

\* ((lambda (. a b) 1) 1 2) ((lambda (a . b c) 1))
ProgBadDotLambda ==
  <<"(","(","l","a","m","b","d","a"," ","(","."," ","a"," ","b",")"," ","1",
    ")"," ","1"," ","2",")"," ","(","(","l","a","m","b","d","a"," ","(","a",
    " ","."," ","b"," ","c",")"," ","1",")",")">>

\* (defun (f) '((print "a") (f))) (f)
ProgLiteralRec ==
  <<"(","d","e","f","u","n"," ","(","f",")"," ","'","(","(","p","r","i","n",
    "t"," ","\"","a","\"",")"," ","(","f",")",")",")"," ","(","f",")">>

\* (print 1) ; c
ProgCommentEof ==
  <<"(","p","r","i","n","t"," ","1",")"," ",";"," ","c">>

FixedPrograms ==
  {ProgRecurse, ProgScope, ProgDynamic, ProgUnbound, ProgMemo,
   ProgPrintOnce, ProgLiteral, ProgArith, ProgArity, ProgIf, ProgListOps,
   ProgCond, ProgSplice, ProgBadDot, ProgNotCallable, ProgSpliceEq,
   ProgSpliceEqLambda, ProgComment, ProgArgs, ProgRecurseArgs,
   ProgBadDotLambda, ProgLiteralRec, ProgCommentEof}

\* Bounds of the generated families: declared fixed parameters, provided
\* arguments, and elements of the list given to cdr.
MaxParams == 2
MaxArgs == 3
MaxLen == 3

ParamChars == <<"a", "b", "c", "d", "e">>

\* " 1 2 ... n"
RECURSIVE NumbersText(_)
NumbersText(n) ==
  IF n = 0 THEN <<>> ELSE NumbersText(n - 1) \o <<" ", DigitChars[n + 1]>>

\* " a b ..." (k names), followed by " . r" for a variadic function
RECURSIVE NamesText(_)
NamesText(k) ==
  IF k = 0 THEN <<>> ELSE NamesText(k - 1) \o <<" ", ParamChars[k]>>
ParamsText(k, variadic) ==
  NamesText(k) \o (IF variadic THEN <<" ", ".", " ", "r">> ELSE <<>>)

\* (defun (f a b . r) 1) (f 1 2 3)
DefunProgram(k, variadic, n) ==
  <<"(", "d", "e", "f", "u", "n", " ", "(", "f">> \o ParamsText(k, variadic)
  \o <<")", " ", "1", ")", " ", "(", "f">> \o NumbersText(n) \o <<")">>

\* ((lambda ( a b . r) 1) 1 2 3)
LambdaProgram(k, variadic, n) ==
  <<"(", "(", "l", "a", "m", "b", "d", "a", " ", "(">>
  \o ParamsText(k, variadic) \o <<")", " ", "1", ")">> \o NumbersText(n)
  \o <<")">>

\* (cdr '( 1 2 3))
CdrProgram(n) ==
  <<"(", "c", "d", "r", " ", "'", "(">> \o NumbersText(n) \o <<")", ")">>

CallPrograms ==
  {DefunProgram(k, v, n) : k \in 0..MaxParams, v \in BOOLEAN, n \in 0..MaxArgs}
  \cup
  {LambdaProgram(k, v, n) : k \in 0..MaxParams, v \in BOOLEAN, n \in 0..MaxArgs}

CdrPrograms == {CdrProgram(n) : n \in 0..MaxLen}

\* The separators that may stand between two tokens of a list text where
\* none is needed, and where one is needed to keep two atoms apart.
OptionalGaps == {<<>>, <<" ">>, <<"\n">>}
RequiredGaps == {<<" ">>, <<"\n">>}

\* (print 1 2) with the given separators between its tokens
LayoutText(g1, g2, g3, g4) ==
  <<"(">> \o g1 \o <<"p","r","i","n","t">> \o g2 \o <<"1">> \o g3 \o <<"2">>
    \o g4 \o <<")">>
LayoutBase == LayoutText(<<>>, <<" ">>, <<" ">>, <<>>)
LayoutPrograms ==
  {LayoutText(g1, g2, g3, g4) :
     g1 \in OptionalGaps, g2 \in RequiredGaps, g3 \in RequiredGaps,
     g4 \in OptionalGaps}

Programs ==
  FixedPrograms \cup CallPrograms \cup CdrPrograms \cup LayoutPrograms

---------------------------------------------------------------------------
(* The interpreter: init_interp, then load_file on one program text        *)

Init ==
  /\ text \in Programs
  /\ text_pos = 0
  /\ heap = InitHeap
  /\ symtabs = <<SymTable(InitGlobals, 0)>>
  /\ symtable = 1
  /\ call_stack_size = 0
  /\ stack = <<Fr("load_file", 0)>>
  /\ ret = nil_obj
  /\ out = <<>>
  /\ status = "running"

Next ==
  \/ LoadFileRead
  \/ LoadFileDone
  \/ EvalExprStart
  \/ EvalSymbolMemo
  \/ EvalLiteralElem
  \/ EvalCallDispatch
  \/ AddSubStart
  \/ AddSubFold
  \/ BinaryStart
  \/ BinaryLeft
  \/ BinaryRight
  \/ SetqStart
  \/ SetqBind
  \/ PrintStart
  \/ PrintArg
  \/ DefunBuiltin
  \/ LambdaBuiltin
  \/ IfStart
  \/ IfBranch
  \/ ListOpStart
  \/ CarCadrArg
  \/ CdrArg
  \/ CondStart
  \/ CondTest
  \/ CallFunctionStart
  \/ CallFunctionBind
  \/ CallFunctionSplice
  \/ CallFunctionBound
  \/ CallFunctionEnter
  \/ CallFunctionBody
  \/ CallFunctionBodyNext
  \/ CallFunctionExit

Spec == Init /\ [][Next]_vars

\* The interpreter is one sequential process that runs until it returns or
\* exits: a step that can be taken is taken.
LiveSpec == Init /\ [][Next]_vars /\ WF_vars(Next)

---------------------------------------------------------------------------
(* Properties                                                              *)

\* The call whose body is being evaluated, seen from its frame fr: the
\* declared parameters without the name slot of a defun, the provided
\* arguments without the head of the call form.
InBody(fr) == fr.fn = "call_function" /\ fr.pc \in {"body", "evaluated"}
DeclaredParams(fr) ==
  LET al == heap[heap[fr.fobj].funargs].l
  IN IF has_flag(heap, fr.fobj, OF_LAMBDA) THEN al ELSE Tail(al)
ProvidedArgs(fr) == Tail(heap[fr.expr].l)
ParamName(fr, j) == heap[DeclaredParams(fr)[j]].s
Local(fr, name) == IF name \in DOMAIN fr.locals THEN fr.locals[name] ELSE 0
IsVariadic(fr) ==
  LET P == DeclaredParams(fr)
  IN /\ Len(P) >= 2
     /\ \A j \in 1..Len(P) : (P[j] = dot_obj) <=> (j = Len(P) - 1)
IsFixedArity(fr) ==
  \A j \in 1..Len(DeclaredParams(fr)) : DeclaredParams(fr)[j] # dot_obj
\* Number and string literals evaluate to themselves: the value of such an
\* argument expression is the expression object.
SelfEvaluating(o) == heap[o].type \in {"Number", "String"}
AllSelfEvaluating(A) == \A j \in 1..Len(A) : SelfEvaluating(A[j])
Running == status = "running" /\ stack # <<>>

\* C1: in every reachable state the call-depth counter is at most 256.
C1_DepthAtMostMax == call_stack_size <= MAX_STACK_SIZE

\* C2: when the body of a function (defun or lambda) declared with k fixed
\* parameters, the dot and a variadic name starts, called with n >= k
\* arguments, the i-th fixed parameter is bound to the i-th argument and the
\* variadic name to the list of exactly the arguments k+1..n, in order.
C2_VariadicBinding ==
  (Running /\ InBody(Top) /\ IsVariadic(Top)) =>
    LET P == DeclaredParams(Top)
        A == ProvidedArgs(Top)
        k == Len(P) - 2
        rest == Local(Top, ParamName(Top, k + 2))
    IN (Len(A) >= k /\ AllSelfEvaluating(A)) =>
         /\ \A j \in 1..k : Local(Top, ParamName(Top, j)) = A[j]
         /\ rest # 0
         /\ is_list(heap, rest)
         /\ heap[rest].l = SubSeq(A, k + 1, Len(A))

\* C3: a function (defun or lambda) with k non-variadic parameters called
\* with m < k arguments completes its binding normally, without an access
\* past the end of the call form, with parameters 1..m bound to the
\* arguments and parameters m+1..k bound to Nil.
C3_MissingArgsNil ==
  /\ ~(status = "crash" /\ stack # <<>> /\ Top.fn = "call_function")
  /\ (Running /\ InBody(Top) /\ IsFixedArity(Top)) =>
       LET P == DeclaredParams(Top)
           A == ProvidedArgs(Top)
       IN (Len(A) < Len(P) /\ AllSelfEvaluating(A)) =>
            /\ \A j \in 1..Len(A) : Local(Top, ParamName(Top, j)) = A[j]
            /\ \A j \in (Len(A) + 1)..Len(P) :
                 Local(Top, ParamName(Top, j)) = nil_obj

\* The step in which cdr_builtin returns, its operand having evaluated to
\* a list.
CdrReturns == At({"cdr"}, {"arg"}) /\ is_list(heap, ret)

\* cdr returns a list holding the operand's elements from the second on.
CdrDropsFirst ==
  LET L == heap[ret].l
  IN /\ is_list(heap', ret')
     /\ Len(heap'[ret'].l) = Len(L) - 1
     /\ \A i \in 1..(Len(L) - 1) : heap'[ret'].l[i] = L[i + 1]

\* No error is reported and the program goes on.
CdrNoError == out' = out /\ status' = "running" /\ stack' = Rest

\* C4 (as stated): cdr of a list of length n >= 2 yields the n-1 elements
\* after the first, cdr of a list of length 1 yields that one-element list
\* unchanged, cdr of the empty list yields the empty list; none is an error.
C4_CdrLawsAsStated ==
  [][CdrReturns =>
       /\ CdrNoError
       /\ Len(heap[ret].l) >= 2 => CdrDropsFirst
       /\ Len(heap[ret].l) = 1 =>
            /\ is_list(heap', ret')
            /\ heap'[ret'].l = heap[ret].l
       /\ Len(heap[ret].l) = 0 =>
            /\ is_list(heap', ret')
            /\ heap'[ret'].l = <<>>]_vars

\* C4 (amended): cdr of a list of length n >= 1 yields a list of the n-1
\* elements after the first, so that cdr of a one-element list yields an
\* empty list; cdr of the empty list yields the empty list; none is an error.
C4_CdrLaws ==
  [][CdrReturns =>
       /\ CdrNoError
       /\ Len(heap[ret].l) >= 1 =>
            /\ CdrDropsFirst
            /\ ret' # ret
            /\ has_flag(heap', ret', OF_EVALUATED)
       /\ Len(heap[ret].l) = 0 => ret' = ret /\ heap' = heap]_vars

\* cdr has returned an empty list for the one-element list it was given.
C4_Witness ==
  /\ text = CdrProgram(1)
  /\ status = "done"
  /\ is_list(heap, ret)
  /\ heap[ret].l = <<>>
  /\ \E o \in 1..Len(heap) :
       o # ret /\ is_list(heap, o) /\ Len(heap[o].l) = 1
          /\ has_flag(heap, o, OF_EVALUATED)

\* The step in which call_function leaves: exit_scope, the counter's
\* decrement and the return.
CallReturns == At({"call_function"}, {"body"}) /\ Top.idx >= Len(Body(Top))

\* C5: after a user-defined function call returns, every name resolves in
\* the caller's scope chain exactly as it did immediately before the call's
\* body started: a name the body bound with setq is not visible if it was
\* unbound before, and a binding of an outer scope is left unchanged.
C5_ScopeIsolation ==
  [][CallReturns => Resolution(symtabs', symtable') = Top.snap]_vars

\* A call whose body rebound x (bound outside) and bound y (unbound outside)
\* has returned, and (print x y) printed the caller's x and Nil for y.
C5_Witness ==
  /\ text = ProgScope
  /\ status = "done"
  /\ out = <<"1", "nil", "\n">>
  /\ "y" \notin DOMAIN symtabs[1].map

\* The calls whose body is being evaluated.
ActiveCalls == {i \in 1..Len(stack) : InBody(stack[i])}

\* The scope chain is the chain of active calls: one scope per call whose
\* body is being evaluated, each chained to the scope of the call that
\* called it (the global table for the outermost).
ScopeChainIsCallChain ==
  /\ Len(symtabs) = 1 + Cardinality(ActiveCalls)
  /\ status = "running" => symtable = Len(symtabs)
  /\ symtabs[1].prev = 0
  /\ \A j \in 2..Len(symtabs) : symtabs[j].prev = j - 1

\* C6: the scope created for a user-defined function call has as its parent
\* the scope current at the call site, so a free variable of the body
\* resolves to the binding visible in the caller's chain at call time: g,
\* defined at top level where x is 1, called from h whose parameter x is 2,
\* returns 2.
C6_DynamicScoping ==
  /\ [](stack # <<>> => ScopeChainIsCallChain)
  /\ [][At({"call_function"}, {"enter"}) =>
          /\ symtable' = Len(symtabs')
          /\ symtabs'[symtable'].prev = symtable
          /\ symtabs'[symtable'].map = Top.locals]_vars
  /\ []((text = ProgDynamic /\ status = "done") =>
          heap[ret].type = "Number" /\ heap[ret].i = 2)

\* g's body runs inside h's call: x resolves to h's parameter, not to the
\* global x.
C6_Witness ==
  /\ text = ProgDynamic
  /\ Running
  /\ InBody(Top)
  /\ Len(symtabs) = 3
  /\ DOMAIN symtabs[3].map = {}
  /\ heap[get_symbol(symtabs, symtable, "x")].i = 2
  /\ heap[symtabs[1].map["x"]].i = 1

\* The evaluation of a symbol bound in no scope of the current chain starts.
UnboundSymbolEval ==
  /\ At({"eval_expr"}, {"start"})
  /\ ~has_flag(heap, Top.expr, OF_EVALUATED)
  /\ heap[Top.expr].type = "Symbol"
  /\ FindScope(symtabs, symtable, heap[Top.expr].s) = 0

\* C7: evaluating a symbol bound in no scope of the current chain reports
\* 'symbol not found', returns Nil, and the program goes on.
C7_UnboundReported ==
  [][UnboundSymbolEval =>
       /\ out' = Append(out, ErrSymbolNotFound)
       /\ ret' = nil_obj
       /\ stack' = Rest
       /\ status' = "running"]_vars

\* C8: when a symbol's bound value is not yet Evaluated, the evaluated
\* result, marked Evaluated, replaces the binding in the scope where the
\* symbol was found, and no other scope changes: no binding for the name is
\* created in another scope.
C8_MemoInPlace ==
  [][At({"eval_expr"}, {"sym"}) =>
       LET name == heap[Top.expr].s
           found == FindScope(symtabs, symtable, name)
       IN /\ has_flag(heap', ret', OF_EVALUATED)
          /\ Len(symtabs') = Len(symtabs)
          /\ found # 0 => symtabs'[found].map[name] = ret'
          /\ \A t \in 1..Len(symtabs) :
               t # found => symtabs'[t] = symtabs[t]]_vars

\* A symbol is being evaluated: eval_expr starts on a symbol, or waits for
\* the evaluation of the symbol's bound value.
EvaluatingSymbol ==
  /\ Running
  /\ \/ Top.fn = "eval_expr" /\ Top.pc = "start"
          /\ heap[Top.expr].type = "Symbol"
     \/ \E i \in 1..Len(stack) :
          stack[i].fn = "eval_expr" /\ stack[i].pc = "sym"

\* C9: the side effects of a bound expression happen at most once per
\* binding: nothing is printed while a symbol is evaluated, so after x is
\* bound by setq to the value of (print "a") and y by argument binding to
\* the value of (print "b"), evaluating x and y again, in the binding scope
\* and in nested call scopes, leaves the output at one "a" and one "b".
C9_PrintOncePerBinding ==
  /\ [][EvaluatingSymbol => out' = out]_vars
  /\ []((text = ProgPrintOnce /\ status = "done") =>
          out = <<"a", "\n", "b", "\n">>)

\* x and y were bound to the values of prints and evaluated several times
\* since; each print ran once.
C9_Witness ==
  /\ text = ProgPrintOnce
  /\ status = "done"
  /\ out = <<"a", "\n", "b", "\n">>
  /\ symtabs[1].map["x"] = nil_obj

\* eval_expr starts on an object whose Evaluated flag is set.
EvaluatedEval ==
  At({"eval_expr"}, {"start"}) /\ has_flag(heap, Top.expr, OF_EVALUATED)

\* eval_expr returns from the evaluation of a symbol or of a list literal.
SymbolOrLiteralReturns ==
  /\ At({"eval_expr"}, {"start", "sym", "lit"})
  /\ \/ heap[Top.expr].type = "Symbol"
     \/ is_list(heap, Top.expr) /\ has_flag(heap, Top.expr, OF_LIST_LITERAL)
  /\ stack' = Rest

\* C10: evaluating an object whose Evaluated flag is set returns that same
\* object and changes no binding, flag, list element, scope, call depth or
\* output; the result of evaluating a symbol or a list literal has the flag
\* set, hence evaluate(evaluate(x)) = evaluate(x).
C10_Idempotent ==
  /\ [][EvaluatedEval =>
          /\ ret' = Top.expr
          /\ stack' = Rest
          /\ UNCHANGED <<text, text_pos, heap, symtabs, symtable,
                         call_stack_size, out, status>>]_vars
  /\ [][SymbolOrLiteralReturns => has_flag(heap', ret', OF_EVALUATED)]_vars

\* The second call of k has evaluated the list literal of its body again,
\* and got the same, already evaluated, list.
C10_Witness ==
  /\ text = ProgLiteral
  /\ text_pos = Len(text)
  /\ Running
  /\ InBody(Top)
  /\ Top.pc = "evaluated"
  /\ is_list(heap, ret)
  /\ ret = Body(Top)[3]
  /\ has_flag(heap, ret, OF_EVALUATED)
  /\ has_flag(heap, ret, OF_LIST_LITERAL)

\* C11: an if form with exactly three operands evaluates its condition
\* first and once, then goes on with exactly one branch, the then-branch
\* when the condition's value is truthy and the else-branch otherwise, whose
\* value is the result; nothing else is evaluated or printed by if itself,
\* so the other branch's side effects never occur.
C11_IfShortCircuit ==
  /\ [][(At({"if"}, {"start"}) /\ Len(Elems) = 4) =>
          /\ stack' = Rest \o <<[Top EXCEPT !.pc = "condition"],
                                Fr("eval_expr", Elems[2])>>
          /\ out' = out /\ heap' = heap /\ symtabs' = symtabs]_vars
  /\ [][At({"if"}, {"condition"}) =>
          /\ stack' = Rest \o
               <<Fr("eval_expr", IF ret # false_obj /\ ret # nil_obj
                                   THEN Elems[3] ELSE Elems[4])>>
          /\ out' = out /\ heap' = heap /\ symtabs' = symtabs]_vars
  /\ []((text = ProgIf /\ status = "done") =>
          out = <<"a", "\n", "b", "\n", "c", "\n", "b", "\n">>)

\* The three if forms ran: a true condition printed only "a", a false one
\* only "b", and a condition that prints "c" and yields Nil printed "c" once
\* and then only "b".
C11_Witness ==
  /\ text = ProgIf
  /\ status = "done"
  /\ out = <<"a", "\n", "b", "\n", "c", "\n", "b", "\n">>

\* A built-in starts on a call form with a wrong operand count: + or - with
\* fewer than two operands, a binary built-in or setq with a count other
\* than two, if with a count other than three.
ArityError ==
  \/ At({"+", "-"}, {"start"}) /\ Len(Elems) - 1 < 2
  \/ At(BinaryNames \cup {"setq"}, {"start"}) /\ Len(Elems) - 1 # 2
  \/ At({"if"}, {"start"}) /\ Len(Elems) - 1 # 3

\* The operands of the call form of the top frame are number literals.
NumberOperands ==
  \A j \in 2..Len(Elems) : heap[Elems[j]].type = "Number"

RECURSIVE SumOf(_, _)
SumOf(h, elems) ==
  IF elems = <<>> THEN 0 ELSE h[Head(elems)].i + SumOf(h, Tail(elems))

\* C12: a built-in given a wrong operand count reports an error and returns
\* Nil in that very step, so that no operand is evaluated and no binding
\* changes; + on number operands returns their sum, (+ 1 2 3) yielding 6.
C12_ArityLaws ==
  /\ [][ArityError =>
          /\ out' = Append(out, ErrArity)
          /\ ret' = nil_obj
          /\ stack' = Rest
          /\ heap' = heap /\ symtabs' = symtabs /\ symtable' = symtable
          /\ status' = "running"]_vars
  /\ [][(At({"+"}, {"first", "fold"}) /\ NumberOperands
           /\ Len(stack') < Len(stack)) =>
          /\ heap'[ret'].type = "Number"
          /\ heap'[ret'].i = SumOf(heap, Tail(Elems))]_vars
  /\ []((text = ProgArity /\ status = "done") =>
          /\ SubSeq(out, 1, 11) = [j \in 1..11 |-> ErrArity]
          /\ SubSeq(out, 15, 17) = <<"6", "nil", "\n">>)

\* Every wrong operand count was reported without its operands' prints and
\* without binding y, and (+ 1 2 3) printed 6.
C12_Witness ==
  /\ text = ProgArity
  /\ status = "done"
  /\ out = [j \in 1..12 |-> ErrArity] \o <<ErrFunDef, ErrFunDef>>
             \o <<"6", "nil", "\n">>
  /\ symtabs = <<SymTable(InitGlobals, 0)>>

\* The step in which call_function returns to its caller, normally or after
\* a reported error.
CallFunctionReturns ==
  /\ At({"call_function"}, {"start", "bind", "splice", "body"})
  /\ stack' = Rest

\* C13: a user-defined function call that returns, normally or through a
\* reported error, leaves the current scope and the call-depth counter as
\* they were when it was called; between top-level evaluations the current
\* scope is the root scope and the counter is 0; the root scope is never
\* exited.
C13_ScopeDepthBalance ==
  /\ [][CallFunctionReturns =>
          /\ symtable' = Top.scope0
          /\ call_stack_size' = Top.depth0
          /\ Len(symtabs') = Top.scope0]_vars
  /\ []((stack # <<>> /\ Top.fn = "load_file") =>
          symtable = 1 /\ call_stack_size = 0 /\ Len(symtabs) = 1)
  /\ [](symtable >= 1 /\ Len(symtabs) >= 1 /\ symtabs[1].prev = 0)
  /\ [][symtable' # symtable /\ symtable = 1 => symtable' = 2]_vars

\* The recursion was cut at the depth limit and all the calls entered have
\* returned: the scope is the root scope again and the counter is 0.
C13_Witness ==
  /\ text = ProgRecurse
  /\ status = "done"
  /\ out = <<ErrMaxStack>>
  /\ symtable = 1
  /\ call_stack_size = 0

\* The caller of the call fr used dot notation: its last two arguments are
\* the dot sentinel and the expression to expand.
CallerDot(fr) ==
  LET A == ProvidedArgs(fr)
  IN Len(A) >= 2 /\ A[Len(A) - 1] = dot_obj
\* The expression that follows the caller's dot.
ListExpr(fr) == heap[fr.expr].l[Len(heap[fr.expr].l)]
\* The values of a sequence of objects.
Vals(h, l) == [j \in 1..Len(l) |-> <<h[l[j]].type, h[l[j]].i>>]
\* The value bound to name in the global table, as a sequence of values when
\* it is a list.
GlobalList(name) == Vals(heap, heap[symtabs[1].map[name]].l)
GlobalVal(name) == Vals(heap, <<symtabs[1].map[name]>>)

\* call_function resumes after the evaluation of the expression that
\* follows the caller's dot.
SpliceStep == At({"call_function"}, {"splice"})

\* The bindings of a defun called with its fixed arguments, the dot and a
\* list are those of the positional call with the list's elements as
\* further arguments.
SpliceBindsAsPositional ==
  (Running /\ InBody(Top) /\ IsVariadic(Top) /\ CallerDot(Top)
     /\ ~IsLambda(heap, Top.fobj)) =>
    LET P == DeclaredParams(Top)
        A == ProvidedArgs(Top)
        k == Len(P) - 2
        Pos == SubSeq(A, 1, Len(A) - 2) \o heap[ListExpr(Top)].l
        rest == Local(Top, ParamName(Top, k + 2))
    IN (Len(A) - 2 >= k /\ AllSelfEvaluating(Pos)) =>
         /\ \A j \in 1..k : Local(Top, ParamName(Top, j)) = Pos[j]
         /\ rest # 0
         /\ is_list(heap, rest)
         /\ heap[rest].l = SubSeq(Pos, k + 1, Len(Pos))

CondPairTest(i) == heap[Elems[i + 1]].l[1]
CondPairResult(i) == heap[Elems[i + 1]].l[2]

\* C15: cond evaluates the test of its first pair first; after a test, if
\* its value is the else sentinel or truthy, cond goes on with that pair's
\* result expression only, whose value it returns; otherwise it evaluates
\* the next pair's test, or returns Nil when no pair is left; cond itself
\* evaluates and prints nothing else.
C15_CondOrder ==
  /\ [][(At({"cond"}, {"start"}) /\ Len(Elems) >= 2) =>
          /\ stack' = Rest \o <<[Top EXCEPT !.pc = "test", !.idx = 1],
                                Fr("eval_expr", CondPairTest(1))>>
          /\ out' = out /\ heap' = heap /\ symtabs' = symtabs]_vars
  /\ [][At({"cond"}, {"test"}) =>
          /\ IF ret = else_obj \/ (ret # nil_obj /\ ret # false_obj)
               THEN stack' = Rest \o
                      <<Fr("eval_expr", CondPairResult(Top.idx))>>
               ELSE IF Top.idx + 1 < Len(Elems)
                 THEN stack' = Rest \o
                        <<[Top EXCEPT !.idx = Top.idx + 1],
                          Fr("eval_expr", CondPairTest(Top.idx + 1))>>
                 ELSE stack' = Rest /\ ret' = nil_obj
          /\ out' = out /\ heap' = heap /\ symtabs' = symtabs]_vars
  /\ []((text = ProgCond /\ status = "done") =>
          out = <<"t", "\n", "b", "\n", "e", "\n", "v", "\n">>)

\* Three cond forms ran: the tests were evaluated in order up to the first
\* truthy one or else, only that pair's result was evaluated, and the cond
\* whose tests were all falsy evaluated no result.
C15_Witness ==
  /\ text = ProgCond
  /\ status = "done"
  /\ ret = nil_obj
  /\ out = <<"t", "\n", "b", "\n", "e", "\n", "v", "\n">>

\* The structure of the object o: its type and value, and for a list the
\* structures of its elements in order.
RECURSIVE Shape(_, _)
Shape(h, o) ==
  IF h[o].type = "List"
    THEN <<"List", [j \in 1..Len(h[o].l) |-> Shape(h, h[o].l[j])]>>
    ELSE <<h[o].type, h[o].s, h[o].i>>

\* What read_expr makes of the text t read from its start.
ReadShape(t) ==
  LET r == read_expr(t, 0, InitHeap)
  IN IF r.st = "ok" THEN Shape(r.heap, r.obj) ELSE <<r.st>>

\* C16: for the list text (print 1 2), whatever spaces or newlines stand
\* between two of its tokens, the closing parenthesis included, the read is
\* never a fatal error and the list read has the same elements as without
\* the extra whitespace.
C16_WhitespaceSkipped ==
  text \in LayoutPrograms =>
    /\ status # "exit"
    /\ Len(stack) >= 2 => Shape(heap, stack[2].expr) = ReadShape(LayoutBase)

\* read_expr started anywhere in the text: when it returns, it has moved
\* the cursor forward if it started before the end of the input, and has
\* returned Nil without moving the cursor or creating an object if it
\* started at the end.
ReadAdvances ==
  \A p \in 0..Len(text) :
    LET r == read_expr(text, p, InitHeap)
    IN r.st = "ok" =>
         IF p < Len(text)
           THEN r.pos > p /\ r.pos <= Len(text)
           ELSE r.pos = p /\ r.obj = nil_obj /\ r.heap = InitHeap

\* C17: every read_expr started before the end of the input moves the
\* cursor forward, and started at the end returns Nil without moving it;
\* hence the read-and-evaluate loop of load_file comes to an end: the text
\* is exhausted, unless the process ended on a fatal error before.  (A read
\* that returns normally leaves the cursor within the text; one that scans
\* beyond the buffer leaves it further on still.)
C17_BatchTerminates ==
  /\ [](text_pos = 0 => ReadAdvances)
  /\ [][(At({"load_file"}, {"start"}) /\ status' = "running") =>
          /\ text_pos < text_pos'
          /\ read_expr(text, text_pos, heap).st = "ok" =>
                text_pos' <= Len(text)]_vars
  /\ [](status = "done" => text_pos >= Len(text))
  /\ <>(status # "running")

\* A text with a comment line, two expressions and trailing whitespace was
\* read and evaluated to its end.
C17_Witness ==
  /\ text = ProgComment
  /\ status = "done"
  /\ text_pos = Len(text)
  /\ out = <<"1", "\n", "2", "\n">>

\* call_function is binding the parameters of the call of the top frame.
SettingUp ==
  At({"call_function"}, {"start", "bind", "bound", "vbound", "splice", "enter"})

\* The names of the declared parameters of the call fr.
ParamNames(fr) ==
  {heap[DeclaredParams(fr)[j]].s :
     j \in {i \in 1..Len(DeclaredParams(fr)) : DeclaredParams(fr)[i] # dot_obj}}

\* Parameter binding happens in the caller's scope, before the call is
\* counted, and the callee's scope is entered only by call_function once
\* every parameter is bound, with exactly the bound parameters in it.
ArgsInCallerScope ==
  /\ [](SettingUp =>
          symtable = Top.scope0 /\ call_stack_size = Top.depth0)
  /\ [][(symtable' > symtable \/ call_stack_size' > call_stack_size) =>
          /\ At({"call_function"}, {"enter"})
          /\ ParamNames(Top) \subseteq DOMAIN Top.locals
          /\ symtabs'[symtable'].map = Top.locals
          /\ symtabs'[symtable'].prev = Top.scope0
          /\ call_stack_size' = Top.depth0 + 1]_vars

\* The program of ProgArgs printed: b took the caller's a, not the parameter
\* a bound just before; z, bound by an argument expression, is visible to
\* the caller afterwards; "l" was printed before "r".
ArgsProgramOutput ==
  (text = ProgArgs /\ status = "done") =>
    /\ SubSeq(out, 1, 10) =
         <<"1", "7", "\n", "x", "\n", "nil", "nil", "\n", "5", "\n">>
    /\ SubSeq(out, 11, 14) = <<"l", "\n", "r", "\n">>

DepthRejected == Running /\ out' = Append(out, ErrMaxStack)

\* C19: a user-defined function call rejected at the call-depth limit
\* returns Nil in that very step: no argument or body expression is
\* evaluated, no scope is created, and the call-depth counter, the heap and
\* every binding stay as they are.
C19_DepthRejection ==
  /\ [][DepthRejected =>
          /\ At({"call_function"}, {"start"})
          /\ stack' = Rest
          /\ ret' = nil_obj
          /\ heap' = heap
          /\ symtabs' = symtabs
          /\ symtable' = symtable
          /\ call_stack_size' = call_stack_size
          /\ status' = "running"]_vars
  /\ [][(At({"call_function"}, {"start"})
           /\ call_stack_size > MAX_STACK_SIZE) => DepthRejected]_vars
  /\ []((text = ProgRecurseArgs /\ status = "done") =>
          /\ Len(out) = 2 * MAX_STACK_SIZE + 1
          /\ out[Len(out)] = ErrMaxStack)

\* The recursion of ProgRecurseArgs was cut at the depth limit: every
\* accepted call had printed its argument's "x", the rejected call has not.
C19_Witness ==
  /\ text = ProgRecurseArgs
  /\ Running
  /\ Len(out) = 2 * MAX_STACK_SIZE + 1
  /\ out[Len(out)] = ErrMaxStack
  /\ call_stack_size = MAX_STACK_SIZE + 1
  /\ Len(symtabs) = MAX_STACK_SIZE + 2

\* The dot sentinel of the declared parameter list of the call fr is not at
\* the second-to-last position.
DeclDotMisplaced(fr) ==
  LET al == heap[heap[fr.fobj].funargs].l
  IN \E j \in 1..Len(al) : al[j] = dot_obj /\ j # Len(al) - 1

\* call_function meets, while collecting variadic arguments, a caller-side
\* dot that is not at the second-to-last position of the call form.
CallerDotMisplaced ==
  /\ At({"call_function"}, {"bind"})
  /\ Top.idx < Len(ArgList(Top))
  /\ ArgList(Top)[Top.idx + 1] = dot_obj
  /\ Top.idx = Len(ArgList(Top)) - 2
  /\ \E d \in (Top.idx + 1)..Len(Provided(Top)) :
       /\ Provided(Top)[d] = dot_obj
       /\ \A e \in (Top.idx + 1)..(d - 1) : Provided(Top)[e] # dot_obj
       /\ d # Len(Provided(Top)) - 1

\* C20: a misplaced variadic dot is a recoverable error: a call of a
\* function whose declared dot is misplaced never ends the process and never
\* enters a scope or evaluates a body expression, and when it returns it has
\* reported the error and returns Nil; a misplaced caller-side dot met
\* while collecting variadic arguments is reported and the call returns
\* Nil, the scope and the counter unchanged.  Refuted by
\* ((lambda (a . b c) 1)): the parameter before the dot is read from past
\* the end of the call form.
C20_MisplacedDotRecoverable ==
  /\ []((stack # <<>> /\ Top.fn = "call_function" /\ DeclDotMisplaced(Top)) =>
          /\ status # "crash"
          /\ Top.pc \notin {"enter", "body", "evaluated"})
  /\ [][(At({"call_function"}, {"start", "bind", "splice", "body"})
           /\ DeclDotMisplaced(Top) /\ stack' = Rest
           /\ ~(call_stack_size > MAX_STACK_SIZE)) =>
          /\ out' = Append(out, ErrDefDot)
          /\ ret' = nil_obj
          /\ symtable' = symtable /\ symtabs' = symtabs
          /\ call_stack_size' = call_stack_size
          /\ status' = "running"]_vars
  /\ [][CallerDotMisplaced =>
          /\ out' = Append(out, ErrCallDot)
          /\ stack' = Rest
          /\ ret' = nil_obj
          /\ symtable' = symtable /\ symtabs' = symtabs
          /\ call_stack_size' = call_stack_size
          /\ status' = "running"]_vars

\* o is a list literal.
IsLiteral(h, o) == is_list(h, o) /\ has_flag(h, o, OF_LIST_LITERAL)

\* eval_expr starts the first evaluation of a list literal with elements.
LiteralFirstEval ==
  /\ At({"eval_expr"}, {"start"})
  /\ IsLiteral(heap, Top.expr)
  /\ ~has_flag(heap, Top.expr, OF_EVALUATED)
  /\ Len(heap[Top.expr].l) > 0

\* eval_expr is back from the evaluation of the element at Top.idx.
LiteralElemDone == At({"eval_expr"}, {"lit"})

\* eval_expr starts on a list literal that is already marked Evaluated.
LiteralLaterEval ==
  /\ At({"eval_expr"}, {"start"})
  /\ IsLiteral(heap, Top.expr)
  /\ has_flag(heap, Top.expr, OF_EVALUATED)

\* An evaluation of the elements of the literal e is under way in a frame
\* below the top of the stack.
LiteralUnderEvaluation(e) ==
  \E k \in 1..(Len(stack) - 1) :
    /\ stack[k].fn = "eval_expr"
    /\ stack[k].pc = "lit"
    /\ stack[k].expr = e

\* The first evaluation goes through the elements in index order and stores
\* each result in the element's slot; after the last one the list is marked
\* Evaluated and is itself the result.
LiteralInPlaceInOrder ==
  /\ [][LiteralFirstEval =>
          /\ heap' = heap
          /\ stack' = Rest \o <<[Top EXCEPT !.pc = "lit", !.idx = 0],
                                Fr("eval_expr", heap[Top.expr].l[1])>>]_vars
  /\ [][LiteralElemDone =>
          /\ heap'[Top.expr].l = [heap[Top.expr].l EXCEPT ![Top.idx + 1] = ret]
          /\ IF Top.idx + 1 < Len(heap[Top.expr].l)
               THEN stack' = Rest \o
                      <<[Top EXCEPT !.idx = Top.idx + 1],
                        Fr("eval_expr", heap'[Top.expr].l[Top.idx + 2])>>
               ELSE /\ has_flag(heap', Top.expr, OF_EVALUATED)
                    /\ stack' = Rest
                    /\ ret' = Top.expr]_vars

\* An evaluation of the elements of a literal never starts while another
\* one of the same literal is under way, and an evaluation of a literal
\* marked Evaluated returns it without evaluating anything; the mark is
\* never taken back.
LiteralElementsOnce ==
  /\ [][LiteralFirstEval => ~LiteralUnderEvaluation(Top.expr)]_vars
  /\ [][LiteralLaterEval =>
          /\ stack' = Rest
          /\ ret' = Top.expr
          /\ heap' = heap
          /\ out' = out]_vars
  /\ [][\A o \in DOMAIN heap :
          (IsLiteral(heap, o) /\ has_flag(heap, o, OF_EVALUATED)) =>
            has_flag(heap', o, OF_EVALUATED)]_vars

\* The length of a literal is changed neither by a step of its evaluation
\* nor, once it is marked Evaluated, by any step.
LiteralLengthFixed ==
  /\ [][(LiteralFirstEval \/ LiteralElemDone) =>
          Len(heap'[Top.expr].l) = Len(heap[Top.expr].l)]_vars
  /\ [][\A o \in DOMAIN heap :
          (IsLiteral(heap, o) /\ has_flag(heap, o, OF_EVALUATED)) =>
            Len(heap'[o].l) = Len(heap[o].l)]_vars

\* C21: the elements of a list literal are evaluated exactly once over any
\* number of evaluations of the literal: the first evaluation evaluates
\* them in index order, stores each result in its slot, marks the list
\* Evaluated and returns the same list; no other evaluation of the literal
\* evaluates an element, and the length of the list never changes.
\* Refuted by (defun (f) '((print "a") (f))) (f): the element (f) is
\* evaluated again by every nested evaluation of the literal, which is
\* marked Evaluated only after its last element.
C21_LiteralEvaluatedOnce ==
  /\ LiteralInPlaceInOrder
  /\ LiteralElementsOnce
  /\ LiteralLengthFixed

\* The read pass that load_file is about to start reads outside the buffer.
ReadLeavesBuffer ==
  /\ At({"load_file"}, {"start"})
  /\ load_file_more(text_pos, Len(text))
  /\ read_expr(text, text_pos, heap).st \in {"ub", "ub_list"}

\* C22: the reader cursor never moves past the end of the input: in every
\* reachable state the cursor is at most the length of the text, and no
\* read pass reads a character beyond the terminating NUL.  Refuted by a
\* text whose last line is a comment with no newline, as in (print 1) ; c:
\* the comment scan stops only at a newline and runs on beyond the buffer.
C22_CursorWithinText ==
  /\ [](text_pos <= Len(text))
  /\ [](~ReadLeavesBuffer)

===========================================================================
